---- MODULE Spec2Model ----
(***************************************************************************)
(* Model of the /compile handler of explorer.py (compile_code): the        *)
(* per-request workspace under TEMP_DIR, the GCC run, the CCC run, the     *)
(* objdump probe and run, the clean-up of the disassembly listing, and the *)
(* removal of the workspace.  Several requests are handled by concurrent   *)
(* server threads.                                                         *)
(***************************************************************************)
EXTENDS Naturals, Sequences, FiniteSets, TLC

\* ---------------------------------------------------------------- bounds
\* Requests started in one behaviour, over all threads.
MaxCalls == 2
\* Candidate workspace names that mkdtemp can draw.
NumNames == 2
\* Length of a disassembler output, in characters (SpecNorm).
MaxLen == 5

\* ------------------------------------------------------------ parameters
\* The server threads that run compile_code concurrently.
Threads == {"t1", "t2"}

GCC_BINARY == "/usr/bin/gcc"
CCC_BINARY == "claudes-c-compiler/target/release/ccc"
TEMP_DIR == "/dev/shm"
SPECIFIC_OBJDUMP == "x86_64-linux-gnu-objdump"
GENERIC_OBJDUMP == "objdump"
\* timeout=5 of the three subprocess.run calls that have one.
TIMEOUT == 5

\* A text on which the code does character work is a sequence of characters;
\* "M" stands for one occurrence of the text "Disassembly of section".
MARKER == "M"
TAB == "\t"
NL == "\n"
SPACE == " "
Whitespace == {SPACE, TAB, NL}

\* ----------------------------------------------------- string functions
RECURSIVE LStrip(_)
LStrip(s) ==
    IF s = <<>> THEN <<>>
    ELSE IF Head(s) \in Whitespace THEN LStrip(Tail(s)) ELSE s

RECURSIVE RStrip(_)
RStrip(s) ==
    IF s = <<>> THEN <<>>
    ELSE IF s[Len(s)] \in Whitespace THEN RStrip(SubSeq(s, 1, Len(s) - 1)) ELSE s

\* Mutant: the text is tested as it came, without .strip().
Strip_identity(s) == s

\* str.strip()
Strip(s) == RStrip(LStrip(s))

\* os.path.join(a, b)
PathJoin(a, b) == a \o "/" \o b

\* ------------------------------------------- disassembly listing clean-up
\* Index of the first occurrence of character c in s, 0 if there is none.
RECURSIVE IndexFrom(_, _, _)
IndexFrom(s, c, i) ==
    IF i > Len(s) THEN 0
    ELSE IF s[i] = c THEN i ELSE IndexFrom(s, c, i + 1)

IndexOf(s, c) == IndexFrom(s, c, 1)

\* sub in s, for a one-character sub
Contains(s, c) == IndexOf(s, c) # 0

\* str.splitlines(): no empty last line after a final line break
RECURSIVE SplitLines(_)
SplitLines(s) ==
    IF s = <<>> THEN <<>>
    ELSE LET i == IndexOf(s, NL) IN
         IF i = 0 THEN <<s>>
         ELSE <<SubSeq(s, 1, i - 1)>> \o SplitLines(SubSeq(s, i + 1, Len(s)))

\* Mutant: line.rsplit('\t', 1), the split at the last tab.
SplitTab1_last(line) ==
    IF \E i \in DOMAIN line : line[i] = TAB
    THEN LET i == CHOOSE k \in DOMAIN line :
                      line[k] = TAB /\ \A j \in (k + 1)..Len(line) : line[j] # TAB
         IN <<SubSeq(line, 1, i - 1), SubSeq(line, i + 1, Len(line))>>
    ELSE <<line>>

\* line.split('\t', 1)
SplitTab1(line) ==
    LET i == IndexOf(line, TAB) IN
    IF i = 0 THEN <<line>>
    ELSE <<SubSeq(line, 1, i - 1), SubSeq(line, i + 1, Len(line))>>

\* sep.join(lines)
RECURSIVE Join(_, _)
Join(sep, lines) ==
    IF lines = <<>> THEN <<>>
    ELSE IF Len(lines) = 1 THEN lines[1]
    ELSE lines[1] \o sep \o Join(sep, Tail(lines))

\* Mutant: only the first marker line is skipped, a later one is kept.
CleanStep_keepLaterMarkers(line, start_printing, clean_lines) ==
    IF Contains(line, MARKER) /\ ~start_printing
    THEN [start_printing |-> TRUE, clean_lines |-> clean_lines]
    ELSE IF start_printing /\ Strip(line) # <<>>
         THEN LET parts == SplitTab1(line) IN
              IF Len(parts) > 1
              THEN [start_printing |-> start_printing,
                    clean_lines |-> Append(clean_lines, <<TAB>> \o parts[2])]
              ELSE [start_printing |-> start_printing,
                    clean_lines |-> Append(clean_lines, line)]
         ELSE [start_printing |-> start_printing, clean_lines |-> clean_lines]

\* One iteration of `for line in lines` with the loop's two variables.
CleanStep(line, start_printing, clean_lines) ==
    IF Contains(line, MARKER)
    THEN [start_printing |-> TRUE, clean_lines |-> clean_lines]
    ELSE IF start_printing /\ Strip(line) # <<>>
         THEN LET parts == SplitTab1(line) IN
              IF Len(parts) > 1
              THEN [start_printing |-> start_printing,
                    clean_lines |-> Append(clean_lines, <<TAB>> \o parts[2])]
              ELSE [start_printing |-> start_printing,
                    clean_lines |-> Append(clean_lines, line)]
         ELSE [start_printing |-> start_printing, clean_lines |-> clean_lines]

RECURSIVE CleanLoop(_, _, _)
CleanLoop(lines, start_printing, clean_lines) ==
    IF lines = <<>> THEN clean_lines
    ELSE LET st == CleanStep(Head(lines), start_printing, clean_lines) IN
         CleanLoop(Tail(lines), st.start_printing, st.clean_lines)

\* lines 253-270: the text stored as backend B's asm
CleanAsm(stdout) == Join(<<NL>>, CleanLoop(SplitLines(stdout), FALSE, <<>>))

\* --------------------------------------------------------------- inputs
\* data.get('code', ''): empty, whitespace-only, and real source text.
Codes == { <<>>, <<SPACE, NL>>, <<SPACE, "x", NL>> }
\* data.get('opt', '-O0'): the value is whatever the client sent.
OptLevels == { "-O2", "-Ofast" }
\* Captured stdout of gcc and ccc; captured stderr of gcc, ccc and objdump.
Stdouts == { "", "out" }
Stderrs == { "", "err" }
\* Exit statuses of a child process.
ReturnCodes == { 0, 1 }
\* Captured stdout of objdump: no marker; header, marker, blank line, an
\* instruction line with its address, a label line.
Listings ==
    { <<"h", NL>>,
      <<"h", NL, MARKER, ":", NL, NL, SPACE, "1", ":", TAB, "i", NL, "l", ":", NL>> }
Names == { "tmp" \o ToString(i) : i \in 1..NumNames }

\* ---------------------------------------------------------------- state
VARIABLES
    pc,         \* position of each thread in compile_code
    code,       \* `code` of the thread's current or last request
    opt_level,  \* local `opt_level`
    temp_dir,   \* local `temp_dir` ("" while the thread holds no workspace)
    results,    \* local `results` (a dict: function from its keys)
    response,   \* what compile_code returned (jsonify argument)
    child,      \* the child process the thread is blocked on, if any
    launched,   \* the programs subprocess.run was called for, in order
    objdump_cmd,\* local `objdump_cmd`
    fs,         \* TEMP_DIR: name -> NoDir or Dir(the files of the directory)
    calls       \* requests started so far

vars == <<pc, code, opt_level, temp_dir, results, response, child, launched,
         objdump_cmd, fs, calls>>

\* A directory of TEMP_DIR: the thread whose mkdtemp made it, and its files.
NoDir == [exists |-> FALSE, files |-> {}]
Dir(owner, files) == [exists |-> TRUE, owner |-> owner, files |-> files]
NoChild == [running |-> FALSE]
\* A child process started by subprocess.run(..., timeout=...): `timeout` is
\* the set holding the time limit, empty when the call passes none.
Running(kind, argv, timeout) ==
    [running |-> TRUE, kind |-> kind, argv |-> argv, timeout |-> timeout]
\* The objdump process: the listing it prints is decided by the binary it is
\* given, so it is known from the start; its exit status and stderr are not.
Disassembling(argv, timeout, stdout) ==
    [running |-> TRUE, kind |-> "objdump", argv |-> argv, timeout |-> timeout,
     stdout |-> stdout]
EmptyDict == [k \in {} |-> TRUE]

\* A file of a workspace directory: its name and the thread that wrote it.
File(n, w) == [name |-> n, writer |-> w]
FileNames(d) == { f.name : f \in fs[d].files }

\* results[key] = value
DictSet(d, key, value) == (key :> value) @@ d

\* Mutant: a failure that also carries an (empty) asm.
Failure_withAsm(error) == [success |-> FALSE, error |-> error, asm |-> ""]

Success(asm) == [success |-> TRUE, asm |-> asm]
Failure(error) == [success |-> FALSE, error |-> error]

\* str(e) of the exceptions subprocess.run raises
StrExc(type, prog) ==
    IF type = "TimeoutExpired"
    THEN "Command '" \o prog \o "' timed out after 5 seconds"
    ELSE "[Errno 2] No such file or directory: '" \o prog \o "'"

Init ==
    /\ pc = [t \in Threads |-> "idle"]
    /\ code = [t \in Threads |-> <<>>]
    /\ opt_level = [t \in Threads |-> "-O0"]
    /\ temp_dir = [t \in Threads |-> ""]
    /\ results = [t \in Threads |-> EmptyDict]
    /\ response = [t \in Threads |-> EmptyDict]
    /\ child = [t \in Threads |-> NoChild]
    /\ launched = [t \in Threads |-> <<>>]
    /\ objdump_cmd = [t \in Threads |-> GENERIC_OBJDUMP]
    /\ fs = [d \in Names |-> NoDir]
    /\ calls = 0

\* The response of the empty-input fast path.
NoCodeResponse ==
    [k \in {"gcc", "ccc"} |-> Failure("No code")]

\* A request arrives at a free thread: lines 179-186.
Request(t, c, o) ==
    /\ pc[t] \in {"idle", "done", "raised"}
    /\ calls < MaxCalls
    /\ calls' = calls + 1
    /\ launched' = [launched EXCEPT ![t] = <<>>]
    /\ IF Strip(c) = <<>>
       THEN /\ response' = [response EXCEPT ![t] = NoCodeResponse]
            /\ pc' = [pc EXCEPT ![t] = "done"]
            /\ UNCHANGED opt_level
       ELSE /\ response' = [response EXCEPT ![t] = EmptyDict]
            /\ pc' = [pc EXCEPT ![t] = "mkdtemp"]
            /\ opt_level' = [opt_level EXCEPT ![t] = o]
    /\ code' = [code EXCEPT ![t] = c]
    /\ UNCHANGED <<temp_dir, results, child, objdump_cmd, fs>>

\* ------------------------------------------------------------ workspace
\* The locals of a call that has ended.
NoLocals(t) ==
    /\ opt_level' = [opt_level EXCEPT ![t] = "-O0"]
    /\ temp_dir' = [temp_dir EXCEPT ![t] = ""]
    /\ results' = [results EXCEPT ![t] = EmptyDict]
    /\ objdump_cmd' = [objdump_cmd EXCEPT ![t] = GENERIC_OBJDUMP]

\* Mutant: os.makedirs(..., exist_ok=True), an existing directory is taken.
Mkdtemp_existok(t, n) ==
    /\ pc[t] = "mkdtemp"
    /\ fs' = [fs EXCEPT ![n] = IF @.exists THEN @ ELSE Dir(t, {})]
    /\ temp_dir' = [temp_dir EXCEPT ![t] = n]
    /\ pc' = [pc EXCEPT ![t] = "write"]
    /\ UNCHANGED <<code, opt_level, results, response, child, launched, objdump_cmd, calls>>

\* tempfile.TemporaryDirectory(dir=TEMP_DIR): mkdtemp draws a candidate name
\* and os.mkdir fails on an existing one, in which case mkdtemp draws again.
Mkdtemp(t, n) ==
    /\ pc[t] = "mkdtemp"
    /\ IF fs[n].exists
       THEN UNCHANGED <<fs, temp_dir, pc>>
       ELSE /\ fs' = [fs EXCEPT ![n] = Dir(t, {})]
            /\ temp_dir' = [temp_dir EXCEPT ![t] = n]
            /\ pc' = [pc EXCEPT ![t] = "write"]
    /\ UNCHANGED <<code, opt_level, results, response, child, launched, objdump_cmd, calls>>

\* os.mkdir fails for another reason (TEMP_DIR missing, not writable, full):
\* the OSError leaves compile_code, there is no workspace to remove.
MkdtempFail(t) ==
    /\ pc[t] = "mkdtemp"
    /\ pc' = [pc EXCEPT ![t] = "raised"]
    /\ NoLocals(t)
    /\ UNCHANGED <<code, response, child, launched, fs, calls>>

\* lines 190-194: open(src, "w") and f.write(code), outside any try.  When
\* it fails the file may or may not have been created.
WriteSource(t, ok, created) ==
    /\ pc[t] = "write"
    /\ ok => created
    /\ fs' = [fs EXCEPT ![temp_dir[t]] =
                 IF created THEN [@ EXCEPT !.files = @ \cup {File("test.c", t)}] ELSE @]
    /\ pc' = [pc EXCEPT ![t] = IF ok THEN "gcc" ELSE "cleanup_exc"]
    /\ UNCHANGED <<code, opt_level, temp_dir, results, response, child, launched,
                   objdump_cmd, calls>>

\* TemporaryDirectory.__exit__ on the exception path: the directory and its
\* contents are removed and the exception continues to the caller.
CleanupExc(t) ==
    /\ pc[t] = "cleanup_exc"
    /\ fs' = [fs EXCEPT ![temp_dir[t]] = NoDir]
    /\ pc' = [pc EXCEPT ![t] = "raised"]
    /\ NoLocals(t)
    /\ UNCHANGED <<code, response, child, launched, calls>>

\* Mutant: tempfile.mkdtemp without the context manager, nothing is removed.
Return_keepdir(t, r) ==
    /\ response' = [response EXCEPT ![t] = DictSet(results[t], "ccc", r)]
    /\ pc' = [pc EXCEPT ![t] = "done"]
    /\ NoLocals(t)
    /\ UNCHANGED <<code, fs>>

\* Backend B's result is stored and nothing is left to do but line 279:
\* results["ccc"] = r, return jsonify(results), TemporaryDirectory.__exit__.
Return(t, r) ==
    /\ response' = [response EXCEPT ![t] = DictSet(results[t], "ccc", r)]
    /\ fs' = [fs EXCEPT ![temp_dir[t]] = NoDir]
    /\ pc' = [pc EXCEPT ![t] = "done"]
    /\ NoLocals(t)
    /\ UNCHANGED code

\* ------------------------------------------------------------------ GCC
\* temp_dir holds the name under TEMP_DIR; the paths are lines 190 and 216.
Src(t) == PathJoin(PathJoin(TEMP_DIR, temp_dir[t]), "test.c")
OutBin(t) == PathJoin(PathJoin(TEMP_DIR, temp_dir[t]), "ccc_out")

GccCmd(t) == <<GCC_BINARY, opt_level[t], "-S", "-fverbose-asm", "-o", "-", Src(t)>>

\* lines 205-208
GccResult(returncode, stdout, stderr) ==
    IF returncode = 0 THEN Success(stdout) ELSE Failure(stderr)

\* Mutant: a gcc that cannot be started is tried again.
GccLaunch_retry(t, ok) ==
    /\ pc[t] = "gcc"
    /\ launched' = [launched EXCEPT ![t] = Append(@, "gcc")]
    /\ IF ok
       THEN /\ child' = [child EXCEPT ![t] = Running("gcc", GccCmd(t), {TIMEOUT})]
            /\ pc' = [pc EXCEPT ![t] = "gcc_wait"]
       ELSE UNCHANGED <<child, pc>>
    /\ UNCHANGED <<code, opt_level, temp_dir, results, response, objdump_cmd, fs, calls>>

\* line 203, Popen: the process starts, or OSError goes to line 209.
GccLaunch(t, ok) ==
    /\ pc[t] = "gcc"
    /\ launched' = [launched EXCEPT ![t] = Append(@, "gcc")]
    /\ IF ok
       THEN /\ child' = [child EXCEPT ![t] = Running("gcc", GccCmd(t), {TIMEOUT})]
            /\ pc' = [pc EXCEPT ![t] = "gcc_wait"]
            /\ UNCHANGED results
       ELSE /\ results' = [results EXCEPT ![t] =
                   DictSet(@, "gcc", Failure(StrExc("OSError", GCC_BINARY)))]
            /\ pc' = [pc EXCEPT ![t] = "ccc"]
            /\ UNCHANGED child
    /\ UNCHANGED <<code, opt_level, temp_dir, response, objdump_cmd, fs, calls>>

\* The gcc process exits by itself: lines 205-208.
GccExit(t, returncode, stdout, stderr) ==
    /\ pc[t] = "gcc_wait"
    /\ child' = [child EXCEPT ![t] = NoChild]
    /\ results' = [results EXCEPT ![t] =
           DictSet(@, "gcc", GccResult(returncode, stdout, stderr))]
    /\ pc' = [pc EXCEPT ![t] = "ccc"]
    /\ UNCHANGED <<code, opt_level, temp_dir, response, launched, objdump_cmd, fs, calls>>

\* Mutant: `except OSError`, which TimeoutExpired is not: it leaves the with
\* block and compile_code.
GccTimeout_uncaught(t) ==
    /\ pc[t] = "gcc_wait"
    /\ child[t].timeout # {}
    /\ child' = [child EXCEPT ![t] = NoChild]
    /\ pc' = [pc EXCEPT ![t] = "cleanup_exc"]
    /\ UNCHANGED <<code, opt_level, temp_dir, results, response, launched,
                   objdump_cmd, fs, calls>>

\* The time limit passes first: subprocess.run kills the child, waits for it
\* and raises TimeoutExpired, caught at line 209.
GccTimeout(t) ==
    /\ pc[t] = "gcc_wait"
    /\ child[t].timeout # {}
    /\ child' = [child EXCEPT ![t] = NoChild]
    /\ results' = [results EXCEPT ![t] =
           DictSet(@, "gcc", Failure(StrExc("TimeoutExpired", GCC_BINARY)))]
    /\ pc' = [pc EXCEPT ![t] = "ccc"]
    /\ UNCHANGED <<code, opt_level, temp_dir, response, launched, objdump_cmd, fs, calls>>

\* ------------------------------------------------------------------ CCC
CccCmd(t) == <<CCC_BINARY, "-c", Src(t), "-o", OutBin(t)>>

\* Mutant: the message is proc.stderr alone, as for gcc.
CccError_stderrOnly(stdout, stderr) == stderr

\* lines 226-227: `proc.stderr if proc.stderr else proc.stdout`, then `or`
CccError(stdout, stderr) ==
    LET err == IF stderr # "" THEN stderr ELSE stdout IN
    IF err # "" THEN err ELSE "Unknown CCC Error"

\* line 222, Popen: the process starts, or OSError goes to line 276.
CccLaunch(t, ok) ==
    /\ pc[t] = "ccc"
    /\ launched' = [launched EXCEPT ![t] = Append(@, "ccc")]
    /\ IF ok
       THEN /\ child' = [child EXCEPT ![t] = Running("ccc", CccCmd(t), {TIMEOUT})]
            /\ pc' = [pc EXCEPT ![t] = "ccc_wait"]
            /\ UNCHANGED <<code, opt_level, temp_dir, results, response, objdump_cmd, fs>>
       ELSE /\ Return(t, Failure(StrExc("OSError", CCC_BINARY)))
            /\ UNCHANGED child
    /\ UNCHANGED calls

\* Mutant: no os.path.exists(out_bin) test, objdump is run on whatever is there.
CccExit_noexists(t, returncode, stdout, stderr, wrote) ==
    /\ pc[t] = "ccc_wait"
    /\ child' = [child EXCEPT ![t] = NoChild]
    /\ IF returncode # 0
       THEN Return(t, Failure(CccError(stdout, stderr)))
       ELSE /\ fs' = [fs EXCEPT ![temp_dir[t]] =
                    IF wrote THEN [@ EXCEPT !.files = @ \cup {File("ccc_out", t)}]
                    ELSE @]
            /\ objdump_cmd' = [objdump_cmd EXCEPT ![t] = GENERIC_OBJDUMP]
            /\ pc' = [pc EXCEPT ![t] = "probe"]
            /\ UNCHANGED <<code, opt_level, temp_dir, results, response>>
    /\ UNCHANGED <<launched, calls>>

\* Mutant: proc.returncode is not looked at, only the output file is.
CccExit_ignoreRc(t, returncode, stdout, stderr, wrote) ==
    /\ pc[t] = "ccc_wait"
    /\ child' = [child EXCEPT ![t] = NoChild]
    /\ IF wrote
       THEN /\ fs' = [fs EXCEPT ![temp_dir[t]] =
                    [@ EXCEPT !.files = @ \cup {File("ccc_out", t)}]]
            /\ objdump_cmd' = [objdump_cmd EXCEPT ![t] = GENERIC_OBJDUMP]
            /\ pc' = [pc EXCEPT ![t] = "probe"]
            /\ UNCHANGED <<code, opt_level, temp_dir, results, response>>
       ELSE Return(t, Failure("Binary missing"))
    /\ UNCHANGED <<launched, calls>>

\* The ccc process exits by itself, having written its output file or not:
\* lines 224-230 and 273-274.  objdump_cmd is set at line 232.
CccExit(t, returncode, stdout, stderr, wrote) ==
    /\ pc[t] = "ccc_wait"
    /\ child' = [child EXCEPT ![t] = NoChild]
    /\ IF returncode # 0
       THEN Return(t, Failure(CccError(stdout, stderr)))
       ELSE IF wrote \/ "ccc_out" \in FileNames(temp_dir[t])
            THEN /\ fs' = [fs EXCEPT ![temp_dir[t]] =
                         [@ EXCEPT !.files = @ \cup {File("ccc_out", t)}]]
                 /\ objdump_cmd' = [objdump_cmd EXCEPT ![t] = GENERIC_OBJDUMP]
                 /\ pc' = [pc EXCEPT ![t] = "probe"]
                 /\ UNCHANGED <<code, opt_level, temp_dir, results, response>>
            ELSE Return(t, Failure("Binary missing"))
    /\ UNCHANGED <<launched, calls>>

\* The time limit passes first: subprocess.run kills the child, waits for it
\* and raises TimeoutExpired, caught at line 276.
CccTimeout(t) ==
    /\ pc[t] = "ccc_wait"
    /\ child[t].timeout # {}
    /\ child' = [child EXCEPT ![t] = NoChild]
    /\ Return(t, Failure(StrExc("TimeoutExpired", CCC_BINARY)))
    /\ UNCHANGED <<launched, calls>>

\* -------------------------------------------------------------- objdump
ProbeCmd == <<SPECIFIC_OBJDUMP, "--version">>

\* line 235, Popen: no timeout argument.  A failure to start is swallowed by
\* the bare except of line 237 and objdump_cmd keeps its value.
ProbeLaunch(t, ok) ==
    /\ pc[t] = "probe"
    /\ launched' = [launched EXCEPT ![t] = Append(@, "probe")]
    /\ IF ok
       THEN /\ child' = [child EXCEPT ![t] = Running("probe", ProbeCmd, {})]
            /\ pc' = [pc EXCEPT ![t] = "probe_wait"]
       ELSE /\ pc' = [pc EXCEPT ![t] = "objdump"]
            /\ UNCHANGED child
    /\ UNCHANGED <<code, opt_level, temp_dir, results, response, objdump_cmd, fs, calls>>

\* The probe exits by itself; its exit status is not looked at: line 236.
ProbeExit(t, returncode) ==
    /\ pc[t] = "probe_wait"
    /\ child' = [child EXCEPT ![t] = NoChild]
    /\ objdump_cmd' = [objdump_cmd EXCEPT ![t] = SPECIFIC_OBJDUMP]
    /\ pc' = [pc EXCEPT ![t] = "objdump"]
    /\ UNCHANGED <<code, opt_level, temp_dir, results, response, launched, fs, calls>>

ObjdumpArgv(cmd, out_bin) == <<cmd, "-d", "-M", "intel", "--no-show-raw-insn", out_bin>>
ObjdumpCmd(t) == ObjdumpArgv(objdump_cmd[t], OutBin(t))

\* Mutant: dis.returncode is not looked at.
ObjdumpResult_noRcCheck(returncode, stdout, stderr) == Success(CleanAsm(stdout))

\* lines 251-272
ObjdumpResult(returncode, stdout, stderr) ==
    IF returncode = 0
    THEN Success(CleanAsm(stdout))
    ELSE Failure("Objdump failed: " \o stderr)

\* line 240, Popen: the process starts, or OSError goes to line 276.
ObjdumpLaunch(t, ok, stdout) ==
    /\ pc[t] = "objdump"
    /\ launched' = [launched EXCEPT ![t] = Append(@, "objdump")]
    /\ IF ok
       THEN /\ child' = [child EXCEPT ![t] =
                   Disassembling(ObjdumpCmd(t), {TIMEOUT}, stdout)]
            /\ pc' = [pc EXCEPT ![t] = "objdump_wait"]
            /\ UNCHANGED <<code, opt_level, temp_dir, results, response, objdump_cmd, fs>>
       ELSE /\ Return(t, Failure(StrExc("OSError", objdump_cmd[t])))
            /\ UNCHANGED child
    /\ UNCHANGED calls

\* objdump exits by itself: lines 251-272.
ObjdumpExit(t, returncode, stderr) ==
    /\ pc[t] = "objdump_wait"
    /\ child' = [child EXCEPT ![t] = NoChild]
    /\ Return(t, ObjdumpResult(returncode, child[t].stdout, stderr))
    /\ UNCHANGED <<launched, calls>>

\* The time limit passes first: TimeoutExpired, caught at line 276.
ObjdumpTimeout(t) ==
    /\ pc[t] = "objdump_wait"
    /\ child[t].timeout # {}
    /\ child' = [child EXCEPT ![t] = NoChild]
    /\ Return(t, Failure(StrExc("TimeoutExpired", objdump_cmd[t])))
    /\ UNCHANGED <<launched, calls>>

\* ------------------------------------------------------------------ Spec
Next ==
    \E t \in Threads :
        \/ \E c \in Codes, o \in OptLevels : Request(t, c, o)
        \/ \E n \in Names : Mkdtemp(t, n)
        \/ MkdtempFail(t)
        \/ \E ok, created \in BOOLEAN : WriteSource(t, ok, created)
        \/ CleanupExc(t)
        \/ \E ok \in BOOLEAN : GccLaunch(t, ok)
        \/ \E rc \in ReturnCodes, out \in Stdouts, err \in Stderrs : GccExit(t, rc, out, err)
        \/ GccTimeout(t)
        \/ \E ok \in BOOLEAN : CccLaunch(t, ok)
        \/ \E rc \in ReturnCodes, out \in Stdouts, err \in Stderrs, wrote \in BOOLEAN :
               CccExit(t, rc, out, err, wrote)
        \/ CccTimeout(t)
        \/ \E ok \in BOOLEAN : ProbeLaunch(t, ok)
        \/ \E rc \in ReturnCodes : ProbeExit(t, rc)
        \/ \E ok \in BOOLEAN, out \in Listings : ObjdumpLaunch(t, ok, out)
        \/ \E rc \in ReturnCodes, err \in Stderrs : ObjdumpExit(t, rc, err)
        \/ ObjdumpTimeout(t)

Spec == Init /\ [][Next]_vars

\* ---------------------------------------------- the listing clean-up alone
\* Every objdump output of at most MaxLen characters.
Alphabet == { MARKER, TAB, NL, SPACE, "i" }
AllListings == UNION { [1..n -> Alphabet] : n \in 0..MaxLen }

\* Thread t1 is waiting for objdump in its first request (gcc gave assembly,
\* ccc wrote ccc_out, the probe ran), and objdump prints any listing.
InitNorm ==
    /\ pc = ("t1" :> "objdump_wait") @@ [t \in Threads |-> "idle"]
    /\ code = ("t1" :> <<SPACE, "x", NL>>) @@ [t \in Threads |-> <<>>]
    /\ opt_level = ("t1" :> "-O2") @@ [t \in Threads |-> "-O0"]
    /\ temp_dir = ("t1" :> "tmp1") @@ [t \in Threads |-> ""]
    /\ results = ("t1" :> DictSet(EmptyDict, "gcc", Success("out")))
                    @@ [t \in Threads |-> EmptyDict]
    /\ response = [t \in Threads |-> EmptyDict]
    /\ \E out \in AllListings :
          child = ("t1" :> Disassembling(
                               ObjdumpArgv(SPECIFIC_OBJDUMP,
                                   PathJoin(PathJoin(TEMP_DIR, "tmp1"), "ccc_out")),
                               {TIMEOUT}, out))
                    @@ [t \in Threads |-> NoChild]
    /\ launched = ("t1" :> <<"gcc", "ccc", "probe", "objdump">>)
                    @@ [t \in Threads |-> <<>>]
    /\ objdump_cmd = ("t1" :> SPECIFIC_OBJDUMP) @@ [t \in Threads |-> GENERIC_OBJDUMP]
    /\ fs = ("tmp1" :> Dir("t1", {File("test.c", "t1"), File("ccc_out", "t1")}))
                    @@ [d \in Names |-> NoDir]
    /\ calls = 1

NextNorm ==
    \/ \E rc \in ReturnCodes, err \in Stderrs : ObjdumpExit("t1", rc, err)
    \/ ObjdumpTimeout("t1")

SpecNorm == InitNorm /\ [][NextNorm]_vars

\* ================================================================ claims
Ended == {"done", "raised"}
\* The positions of a thread between backend A's result and the return.
BPhase == {"ccc", "ccc_wait", "probe", "probe_wait", "objdump", "objdump_wait"}
\* A text of white space only, the empty text included.
IsBlank(line) == \A i \in DOMAIN line : line[i] \in Whitespace
NonEmptySource(t) == ~IsBlank(code[t])
Owned(t) == { d \in Names : fs[d].exists /\ fs[d].owner = t }

\* C1: a call for a non-empty source text that has ended, whatever the
\* outcome of each step, has returned a response with both backend fields.
C1_BothBackendsPresent ==
    \A t \in Threads :
        (pc[t] \in Ended /\ NonEmptySource(t)) => DOMAIN response[t] = {"gcc", "ccc"}

\* C2: a request with an empty or whitespace-only source text is answered at
\* once with "No code" for both backends; it calls subprocess.run for nothing,
\* waits for no child and owns no workspace directory.
C2_EmptySourceFastPath ==
    \A t \in Threads :
        (pc[t] # "idle" /\ ~NonEmptySource(t)) =>
            /\ pc[t] = "done"
            /\ DOMAIN response[t] = {"gcc", "ccc"}
            /\ \A k \in {"gcc", "ccc"} :
                   response[t][k] = [success |-> FALSE, error |-> "No code"]
            /\ launched[t] = <<>>
            /\ ~child[t].running
            /\ temp_dir[t] = ""
            /\ Owned(t) = {}

\* C2 witness: a whitespace-only request has been answered.
C2_Witness ==
    \E t \in Threads : pc[t] = "done" /\ code[t] = <<SPACE, NL>>

\* C3: when backend A's wait ends, by a timeout as by anything else, A's
\* result is recorded (a failure on timeout) and backend B is run next; no
\* step of backend B's part, a timeout of ccc or objdump included, changes
\* A's recorded result, and such a timeout makes B's result a failure.
C3_TimeoutIsolation ==
    [][\A t \in Threads :
        /\ (pc[t] = "gcc_wait" /\ pc'[t] # "gcc_wait") =>
               (pc'[t] = "ccc" /\ "gcc" \in DOMAIN results'[t])
        /\ GccTimeout(t) => ~results'[t]["gcc"].success
        /\ (pc[t] \in BPhase /\ pc'[t] \in BPhase) =>
               results'[t]["gcc"] = results[t]["gcc"]
        /\ (pc[t] \in BPhase /\ pc'[t] \notin BPhase) =>
               /\ pc'[t] = "done"
               /\ DOMAIN response'[t] = {"gcc", "ccc"}
               /\ response'[t]["gcc"] = results[t]["gcc"]
        /\ (CccTimeout(t) \/ ObjdumpTimeout(t)) => ~response'[t]["ccc"].success
      ]_vars

\* C3 witness: backend A timed out and backend B succeeded in the same call.
C3_Witness ==
    \E t \in Threads :
        /\ pc[t] = "done"
        /\ DOMAIN response[t] = {"gcc", "ccc"}
        /\ response[t]["gcc"] = Failure(StrExc("TimeoutExpired", GCC_BINARY))
        /\ response[t]["ccc"].success

\* C4: no exception leaves compile_code in a request with a non-empty source.
C4_NoExceptionPropagates ==
    \A t \in Threads : NonEmptySource(t) => pc[t] # "raised"

\* C5: a thread that is not inside a call owns no workspace directory: what
\* it created was removed, with its files, before the call returned or raised.
C5_WorkspaceRemoved ==
    \A t \in Threads : pc[t] \in {"idle"} \cup Ended => Owned(t) = {}

\* C5 witness: a call in which ccc wrote ccc_out and objdump then failed has
\* returned.
C5_Witness ==
    \E t \in Threads :
        /\ pc[t] = "done"
        /\ "objdump" \in { launched[t][i] : i \in DOMAIN launched[t] }
        /\ ~response[t]["ccc"].success

\* C6: two threads never hold the same workspace directory; a directory that
\* exists is held by the thread that created it, starts empty and has only
\* files written by that thread; and a step that changes a directory (file
\* written, directory created or removed) is a step of the only thread
\* holding it.
C6_Exclusive ==
    /\ \A t1, t2 \in Threads :
           (t1 # t2 /\ temp_dir[t1] # "") => temp_dir[t1] # temp_dir[t2]
    /\ \A d \in Names :
           fs[d].exists =>
               /\ temp_dir[fs[d].owner] = d
               /\ \A f \in fs[d].files : f.writer = fs[d].owner

C6_WorkspaceNotShared ==
    /\ []C6_Exclusive
    /\ [][\A d \in Names :
            fs'[d] # fs[d] =>
                /\ (fs'[d].exists /\ ~fs[d].exists) => fs'[d].files = {}
                /\ \E t \in Threads :
                       /\ pc'[t] # pc[t]
                       /\ temp_dir[t] = d \/ temp_dir'[t] = d
                       /\ \A u \in Threads \ {t} :
                              temp_dir[u] # d /\ temp_dir'[u] # d
         ]_vars

\* C6 witness: two threads hold workspaces at once, each with its test.c.
C6_Witness ==
    \E t1, t2 \in Threads :
        /\ t1 # t2
        /\ temp_dir[t1] # "" /\ temp_dir[t2] # ""
        /\ "test.c" \in FileNames(temp_dir[t1])
        /\ "test.c" \in FileNames(temp_dir[t2])

\* C7: when ccc exits non-zero, backend B's result is a failure whose message
\* is ccc's stderr if that is non-empty, else its stdout if that is
\* non-empty, else "Unknown CCC Error"; the message is not empty.
C7_CccErrorMessage ==
    [][\A t \in Threads, rc \in ReturnCodes \ {0}, out \in Stdouts,
          err \in Stderrs, wrote \in BOOLEAN :
          CccExit(t, rc, out, err, wrote) =>
              /\ response'[t]["ccc"] =
                     [success |-> FALSE,
                      error |-> IF err # "" THEN err
                                ELSE IF out # "" THEN out
                                ELSE "Unknown CCC Error"]
              /\ response'[t]["ccc"].error # ""
      ]_vars

\* C7 witness: backend B failed with ccc's stdout as its message, which
\* happens only when ccc exits non-zero with an empty stderr.
C7_Witness ==
    \E t \in Threads :
        /\ pc[t] = "done"
        /\ DOMAIN response[t] = {"gcc", "ccc"}
        /\ response[t]["ccc"] = [success |-> FALSE, error |-> "out"]

\* C8: when gcc exits non-zero, backend A's result is a failure whose message
\* is gcc's stderr if that is non-empty, else its stdout, else a generic
\* message, and is not empty; when gcc exits 0 the result is success with
\* gcc's stdout as assembly.
C8_GccInvokerPolicy ==
    [][\A t \in Threads, rc \in ReturnCodes, out \in Stdouts, err \in Stderrs :
          GccExit(t, rc, out, err) =>
              IF rc = 0
              THEN results'[t]["gcc"] = [success |-> TRUE, asm |-> out]
              ELSE /\ ~results'[t]["gcc"].success
                   /\ results'[t]["gcc"].error # ""
                   /\ err # "" => results'[t]["gcc"].error = err
                   /\ (err = "" /\ out # "") => results'[t]["gcc"].error = out
      ]_vars

\* C9: every child process a thread waits for was started with a time limit.
C9_EveryChildHasTimeout ==
    \A t \in Threads : child[t].running => child[t].timeout # {}

\* ---------------------------------------------------------------- C10
\* Index of the first line of `lines` that contains the marker, 0 if none.
FirstMarkerLine(lines) ==
    IF \E i \in DOMAIN lines : Contains(lines[i], MARKER)
    THEN CHOOSE i \in DOMAIN lines :
             /\ Contains(lines[i], MARKER)
             /\ \A j \in 1..(i - 1) : ~Contains(lines[j], MARKER)
    ELSE 0

\* Steps (3) and (4): the text after the first tab behind a single tab.
Shown(line) ==
    IF \E i \in DOMAIN line : line[i] = TAB
    THEN LET i == CHOOSE k \in DOMAIN line :
                      line[k] = TAB /\ \A j \in 1..(k - 1) : line[j] # TAB
         IN <<TAB>> \o SubSeq(line, i + 1, Len(line))
    ELSE line

RECURSIVE MapShown(_)
MapShown(lines) ==
    IF lines = <<>> THEN <<>> ELSE <<Shown(Head(lines))>> \o MapShown(Tail(lines))

RECURSIVE JoinLines(_)
JoinLines(lines) ==
    IF lines = <<>> THEN <<>>
    ELSE IF Len(lines) = 1 THEN Head(lines)
    ELSE Head(lines) \o <<NL>> \o JoinLines(Tail(lines))

NotBlank(line) == ~IsBlank(line)
NotBlankNoMarker(line) == ~IsBlank(line) /\ ~Contains(line, MARKER)

\* The reference of the claim: only the lines before the first marker line
\* are discarded, so the marker lines are among the remaining lines.
ReferenceAsStated(lines) ==
    LET m == FirstMarkerLine(lines) IN
    IF m = 0 THEN <<>>
    ELSE JoinLines(MapShown(SelectSeq(SubSeq(lines, m, Len(lines)), NotBlank)))

\* The reference with every marker line discarded as well.
ReferenceAmended(lines) ==
    LET m == FirstMarkerLine(lines) IN
    IF m = 0 THEN <<>>
    ELSE JoinLines(MapShown(SelectSeq(SubSeq(lines, m, Len(lines)),
                                      NotBlankNoMarker)))

\* C10 as stated: when objdump exits 0, backend B's assembly is the reference
\* result that discards the lines before the first marker line, drops blank
\* lines, rewrites lines with a tab and joins with newlines.
C10_AsStated ==
    [][\A t \in Threads :
          (pc[t] = "objdump_wait" /\ pc'[t] = "done" /\ response'[t]["ccc"].success)
              => response'[t]["ccc"].asm =
                     ReferenceAsStated(SplitLines(child[t].stdout))
      ]_vars

\* C10 amended: the same with every line that contains the marker, the first
\* one and the later ones, discarded too.
C10_Normalization ==
    [][\A t \in Threads :
          (pc[t] = "objdump_wait" /\ pc'[t] = "done" /\ response'[t]["ccc"].success)
              => response'[t]["ccc"].asm =
                     ReferenceAmended(SplitLines(child[t].stdout))
      ]_vars

\* C10 witness: a listing with a marker line and a line with two tabs has
\* been cleaned to a tab and the text after the first tab.
C10_Witness ==
    /\ pc["t1"] = "done"
    /\ response["t1"]["ccc"] = [success |-> TRUE, asm |-> <<TAB, TAB, "i">>]

\* The programs subprocess.run was called for in the thread's request.
Launched(t) == { launched[t][i] : i \in DOMAIN launched[t] }

\* C11: when ccc exits 0 and ccc_out is not in the workspace, backend B's
\* result is the failure "Binary missing" and the call returns without a
\* subprocess.run call for the probe or for objdump.
C11_BinaryMissing ==
    [][\A t \in Threads, out \in Stdouts, err \in Stderrs :
          CccExit(t, 0, out, err, FALSE) =>
              /\ pc'[t] = "done"
              /\ response'[t]["ccc"] = [success |-> FALSE, error |-> "Binary missing"]
              /\ launched'[t] = <<"gcc", "ccc">>
              /\ ~child'[t].running
      ]_vars

\* C11 witness: a call has returned "Binary missing" for backend B.
C11_Witness ==
    \E t \in Threads :
        /\ pc[t] = "done"
        /\ DOMAIN response[t] = {"gcc", "ccc"}
        /\ response[t]["ccc"] = [success |-> FALSE, error |-> "Binary missing"]
        /\ Launched(t) = {"gcc", "ccc"}

\* C12: every backend result, recorded or returned, has exactly the keys
\* success and asm when success is true and exactly the keys success and
\* error when it is false.
WellFormedResult(r) ==
    IF r.success THEN DOMAIN r = {"success", "asm"}
    ELSE DOMAIN r = {"success", "error"}

C12_OnePayload ==
    \A t \in Threads :
        /\ \A k \in DOMAIN response[t] : WellFormedResult(response[t][k])
        /\ \A k \in DOMAIN results[t] : WellFormedResult(results[t][k])

\* C12 witness: a returned response with one success and one failure.
C12_Witness ==
    \E t \in Threads :
        /\ pc[t] = "done"
        /\ DOMAIN response[t] = {"gcc", "ccc"}
        /\ response[t]["gcc"].success
        /\ ~response[t]["ccc"].success

\* C13: the objdump that is run is x86_64-linux-gnu-objdump when its probe
\* started and exited 0, and the generic objdump when the probe could not be
\* started or exited non-zero.
C13_DisassemblerSelection ==
    [][\A t \in Threads :
          /\ \A rc \in ReturnCodes :
                 ProbeExit(t, rc) =>
                     objdump_cmd'[t] = IF rc = 0 THEN SPECIFIC_OBJDUMP
                                       ELSE GENERIC_OBJDUMP
          /\ ProbeLaunch(t, FALSE) => objdump_cmd'[t] = GENERIC_OBJDUMP
          /\ \A out \in Listings :
                 ObjdumpLaunch(t, TRUE, out) => child'[t].argv[1] = objdump_cmd[t]
      ]_vars

\* C14: subprocess.run is called for the probe and for objdump only after
\* gcc and ccc, and the probe is reached only by a ccc exit with status 0;
\* when ccc exits non-zero, cannot be started or times out the call returns
\* with a failure for backend B (the compile error on a non-zero exit) and
\* without a subprocess.run call for the probe or objdump.
C14_OnlyGccAndCcc(t) ==
    /\ pc'[t] = "done"
    /\ launched'[t] = <<"gcc", "ccc">>
    /\ ~response'[t]["ccc"].success

C14_DisassemblerAfterCcc ==
    /\ [](\A t \in Threads :
            Launched(t) \cap {"probe", "objdump"} # {} =>
                /\ Len(launched[t]) >= 3
                /\ SubSeq(launched[t], 1, 2) = <<"gcc", "ccc">>)
    /\ [][\A t \in Threads :
            /\ (pc'[t] = "probe" /\ pc[t] # "probe") =>
                   /\ pc[t] = "ccc_wait"
                   /\ \E out \in Stdouts, err \in Stderrs :
                          CccExit(t, 0, out, err, TRUE)
            /\ Len(launched'[t]) > Len(launched[t]) =>
                   (launched'[t][Len(launched'[t])] \in {"probe", "objdump"}
                        <=> pc[t] \in {"probe", "objdump"})
            /\ \A rc \in ReturnCodes \ {0}, out \in Stdouts, err \in Stderrs,
                  wrote \in BOOLEAN :
                   CccExit(t, rc, out, err, wrote) =>
                       /\ C14_OnlyGccAndCcc(t)
                       /\ response'[t]["ccc"].error \in
                              ({out, err} \ {""}) \cup {"Unknown CCC Error"}
            /\ CccLaunch(t, FALSE) => C14_OnlyGccAndCcc(t)
            /\ CccTimeout(t) => C14_OnlyGccAndCcc(t)
         ]_vars

\* C14 witness: ccc exited non-zero with a text on stderr, and the call
\* returned after gcc and ccc only.
C14_Witness ==
    \E t \in Threads :
        /\ pc[t] = "done"
        /\ DOMAIN response[t] = {"gcc", "ccc"}
        /\ response[t]["ccc"] = [success |-> FALSE, error |-> "err"]
        /\ launched[t] = <<"gcc", "ccc">>

\* C15: a workspace directory is removed only in a step after which both
\* backends' results are in the response and the owner waits for no child;
\* and ccc is running only with gcc's result already recorded.
C15_ReleaseAfterBoth ==
    /\ [](\A t \in Threads :
            (child[t].running /\ child[t].kind # "gcc") => "gcc" \in DOMAIN results[t])
    /\ [][\A d \in Names :
            (fs[d].exists /\ ~fs'[d].exists) =>
                /\ DOMAIN response'[fs[d].owner] = {"gcc", "ccc"}
                /\ ~child'[fs[d].owner].running
         ]_vars

\* C16: in one request subprocess.run is called at most once for each of
\* gcc, ccc, the probe and objdump, whatever their outcomes, and a result
\* once recorded for a backend is not recorded again.
C16_NoRetry ==
    /\ [](\A t \in Threads, k \in {"gcc", "ccc", "probe", "objdump"} :
            Cardinality({ i \in DOMAIN launched[t] : launched[t][i] = k }) <= 1)
    /\ [][\A t \in Threads :
            /\ \A k \in DOMAIN results[t] \cap DOMAIN results'[t] :
                   results'[t][k] = results[t][k]
            /\ (pc[t] \in {"gcc", "gcc_wait"} /\ pc'[t] # pc[t]) =>
                   pc'[t] \in {"gcc_wait", "ccc"}
            /\ (pc[t] \in BPhase /\ pc'[t] # pc[t]) =>
                   pc'[t] \in (BPhase \ {"ccc"}) \cup {"done"}
         ]_vars

\* C16 witness: gcc could not be started and objdump timed out; the call
\* returned two failures after one subprocess.run call for each program.
C16_Witness ==
    \E t \in Threads :
        /\ pc[t] = "done"
        /\ launched[t] = <<"gcc", "ccc", "probe", "objdump">>
        /\ DOMAIN response[t] = {"gcc", "ccc"}
        /\ response[t]["gcc"] = Failure(StrExc("OSError", GCC_BINARY))
        /\ response[t]["ccc"] = Failure(StrExc("TimeoutExpired", SPECIFIC_OBJDUMP))

\* C17: the second argument of a running gcc is one of -O0, -O1, -O2, -O3,
\* -Os; the arguments of a running ccc are exactly ccc, -c, the source file,
\* -o, the output binary, none of them the request's optimization level.
C17_OptLevelInArgv ==
    \A t \in Threads :
        child[t].running =>
            /\ child[t].kind = "gcc" =>
                   child[t].argv[2] \in {"-O0", "-O1", "-O2", "-O3", "-Os"}
            /\ child[t].kind = "ccc" =>
                   /\ child[t].argv = <<CCC_BINARY, "-c", Src(t), "-o", OutBin(t)>>
                   /\ \A i \in DOMAIN child[t].argv : child[t].argv[i] # opt_level[t]

\* C18: backend A's result is a success exactly when gcc was started and
\* exited 0 before the time limit; backend B's result is a success exactly
\* when objdump exited 0 before the time limit, and objdump is run only after
\* ccc exited 0 and ccc_out was there.
C18_SuccessIff ==
    /\ [](\A t \in Threads :
            pc[t] \in {"probe", "probe_wait", "objdump", "objdump_wait"} =>
                "ccc_out" \in FileNames(temp_dir[t]))
    /\ [][\A t \in Threads :
            /\ \A rc \in ReturnCodes, out \in Stdouts, err \in Stderrs :
                   GccExit(t, rc, out, err) =>
                       (results'[t]["gcc"].success <=> rc = 0)
            /\ (GccTimeout(t) \/ GccLaunch(t, FALSE)) => ~results'[t]["gcc"].success
            /\ \A rc \in ReturnCodes, err \in Stderrs :
                   ObjdumpExit(t, rc, err) =>
                       (response'[t]["ccc"].success <=> rc = 0)
            /\ (pc[t] \in BPhase \ {"objdump_wait"} /\ pc'[t] = "done") =>
                   ~response'[t]["ccc"].success
            /\ ObjdumpTimeout(t) => ~response'[t]["ccc"].success
            /\ (pc'[t] = "probe" /\ pc[t] # "probe") =>
                   \E out \in Stdouts, err \in Stderrs : CccExit(t, 0, out, err, TRUE)
         ]_vars

\* C18 witness: a call has returned a success for both backends.
C18_Witness ==
    \E t \in Threads :
        /\ pc[t] = "done"
        /\ DOMAIN response[t] = {"gcc", "ccc"}
        /\ response[t]["gcc"].success
        /\ response[t]["ccc"].success

\* C19: when objdump exits 0 the cleaned assembly contains no occurrence of
\* the marker, whichever lines of the listing had it, and a listing without
\* any marker gives a success with the empty assembly.
C19_NoMarkerInOutput ==
    [][\A t \in Threads, err \in Stderrs :
          ObjdumpExit(t, 0, err) =>
              /\ response'[t]["ccc"].success
              /\ ~Contains(response'[t]["ccc"].asm, MARKER)
              /\ ~Contains(child[t].stdout, MARKER) =>
                     response'[t]["ccc"] = [success |-> TRUE, asm |-> <<>>]
      ]_vars

\* C19 witness: objdump exited 0 and the cleaned assembly is empty.
C19_Witness ==
    /\ pc["t1"] = "done"
    /\ response["t1"]["ccc"] = [success |-> TRUE, asm |-> <<>>]
====
